---- MODULE Spec2Model ----
(***************************************************************************)
(* Nutri-Score calculator (src/main.rs): threshold tables, the generic     *)
(* point counter `points`, the score composition in                        *)
(* `calculate_nutriscore` and the grade mapping `score_to_letter`.         *)
(*                                                                         *)
(* f32 values are modelled on a fixed-point grid of hundredths: the        *)
(* integer n stands for n/100.  INFINITY stands for f32::INFINITY,         *)
(* -INFINITY for f32::NEG_INFINITY and NAN for the f32 NaN, which is       *)
(* unordered with respect to every value, itself included.                 *)
(***************************************************************************)
EXTENDS Integers, Sequences, FiniteSets

VARIABLES pc, cat, nutrition, fruits_value, is_water,
          tables, negative, fruits_points, score, bars, letter,
          arr, value, idx

vars == <<pc, cat, nutrition, fruits_value, is_water,
          tables, negative, fruits_points, score, bars, letter,
          arr, value, idx>>

(* ---------------------------- bounds ---------------------------------- *)

\* longest table handed to `points` in the stand-alone point-counter runs
MaxLen == 3
\* largest finite table entry / value (in hundredths) in those runs
MaxVal == 2
\* scores handed to `score_to_letter` in the stand-alone grade runs
ScoreBound == 25

(* ------------------------- f32 arithmetic ----------------------------- *)

Scale == 10 * 10

INFINITY == 1000000000

NAN == INFINITY + 1

IsNaN(x) == x = NAN

IsInf(x) == x = INFINITY \/ x = -INFINITY

\* PartialOrd on f32: every comparison with NaN is false
Gt(a, b) == ~IsNaN(a) /\ ~IsNaN(b) /\ a > b

Lt(a, b) == ~IsNaN(a) /\ ~IsNaN(b) /\ a < b

Le(a, b) == ~IsNaN(a) /\ ~IsNaN(b) /\ a <= b

Sign(x) == IF x < 0 THEN -1 ELSE 1

Abs(x) == IF x < 0 THEN -x ELSE x

\* IEEE division a / b, finite quotients truncated onto the grid
F32Div(a, b) ==
    IF IsNaN(a) \/ IsNaN(b) THEN NAN
    ELSE IF IsInf(a) /\ IsInf(b) THEN NAN
    ELSE IF IsInf(a) THEN Sign(a) * Sign(b) * INFINITY
    ELSE IF IsInf(b) THEN 0
    ELSE IF b = 0 THEN (IF a = 0 THEN NAN ELSE Sign(a) * INFINITY)
    ELSE Sign(a) * Sign(b) * ((Abs(a) * Scale) \div Abs(b))

\* IEEE multiplication a * b, finite products truncated onto the grid
F32Mul(a, b) ==
    IF IsNaN(a) \/ IsNaN(b) THEN NAN
    ELSE IF IsInf(a) \/ IsInf(b)
         THEN (IF a = 0 \/ b = 0 THEN NAN ELSE Sign(a) * Sign(b) * INFINITY)
    ELSE Sign(a) * Sign(b) * ((Abs(a) * Abs(b)) \div Scale)

\* a table written in whole units, as in the source literals
Units(s) == [i \in DOMAIN s |-> IF s[i] = INFINITY THEN INFINITY ELSE s[i] * Scale]

\* a table written in tenths of a unit (4.5 is written 45)
Tenths(s) == [i \in DOMAIN s |-> s[i] * (Scale \div 10)]

(* --------------------------- Category --------------------------------- *)

Category == {"Drinks", "Cheese", "OilsAndFats", "Other"}

(* ------------------------- threshold tables --------------------------- *)

ENERGY_CUTOFFS == Units(<<335, 670, 1005, 1340, 1675, 2010, 2345, 2680, 3015, 3350>>)

\* SUGAR_CUTOFFS with two neighbouring literals exchanged
SUGAR_CUTOFFS_swapped == Tenths(<<45, 90, 135, 180, 225, 270, 360, 310, 400, 450>>)

SUGAR_CUTOFFS == Tenths(<<45, 90, 135, 180, 225, 270, 310, 360, 400, 450>>)

SATURATED_FATS_CUTOFF == Units(<<1, 2, 3, 4, 5, 6, 7, 8, 9, 10>>)

SODIUM_CUTOFF == Units(<<90, 180, 270, 360, 450, 540, 630, 720, 810, 900>>)

\* FRUITS_CUTOFFS with a finite ceiling of 100 percent instead of infinity
FRUITS_CUTOFFS_finite == Units(<<40, 60, 80, 80, 80, 100, 100, 100, 100, 100>>)

FRUITS_CUTOFFS ==
    Units(<<40, 60, 80, 80, 80, INFINITY, INFINITY, INFINITY, INFINITY, INFINITY>>)

FIBERS_CUTOFFS == Tenths(<<8, 19, 28, 37, 47>>)

PROTEIN_CUTOFFS == Tenths(<<16, 32, 48, 64, 80>>)

\* positions in the array returned by all_cutoffs
EnergyIx == 1
FatsIx == 2
SugarIx == 3
ProteinIx == 4
SodiumIx == 5
FibersIx == 6
FruitsIx == 7

\* all_cutoffs with the fruit override taken for every category
all_cutoffs_fruits_always(self) ==
    LET energy == IF self = "Drinks"
                  THEN Units(<<0, 30, 60, 90, 120, 150, 180, 210, 240, 270>>)
                  ELSE ENERGY_CUTOFFS
        fats   == IF self = "OilsAndFats"
                  THEN Units(<<10, 16, 22, 28, 34, 40, 46, 52, 58, 64>>)
                  ELSE SATURATED_FATS_CUTOFF
        sugar  == IF self = "Drinks"
                  THEN Tenths(<<0, 15, 30, 45, 60, 75, 90, 105, 120, 135>>)
                  ELSE SUGAR_CUTOFFS
        fruits == Units(<<0, 40, 40, 60, 60, 80, 80, 80, 80, 80>>)
    IN  <<energy, fats, sugar, PROTEIN_CUTOFFS, SODIUM_CUTOFF, FIBERS_CUTOFFS, fruits>>

\* all_cutoffs with the sugar override keyed on the wrong category
all_cutoffs_sugar_oils(self) ==
    LET energy == IF self = "Drinks"
                  THEN Units(<<0, 30, 60, 90, 120, 150, 180, 210, 240, 270>>)
                  ELSE ENERGY_CUTOFFS
        fats   == IF self = "OilsAndFats"
                  THEN Units(<<10, 16, 22, 28, 34, 40, 46, 52, 58, 64>>)
                  ELSE SATURATED_FATS_CUTOFF
        sugar  == IF self = "OilsAndFats"
                  THEN Tenths(<<0, 15, 30, 45, 60, 75, 90, 105, 120, 135>>)
                  ELSE SUGAR_CUTOFFS
        fruits == IF self = "Drinks"
                  THEN Units(<<0, 40, 40, 60, 60, 80, 80, 80, 80, 80>>)
                  ELSE FRUITS_CUTOFFS
    IN  <<energy, fats, sugar, PROTEIN_CUTOFFS, SODIUM_CUTOFF, FIBERS_CUTOFFS, fruits>>

all_cutoffs(self) ==
    LET energy == IF self = "Drinks"
                  THEN Units(<<0, 30, 60, 90, 120, 150, 180, 210, 240, 270>>)
                  ELSE ENERGY_CUTOFFS
        fats   == IF self = "OilsAndFats"
                  THEN Units(<<10, 16, 22, 28, 34, 40, 46, 52, 58, 64>>)
                  ELSE SATURATED_FATS_CUTOFF
        sugar  == IF self = "Drinks"
                  THEN Tenths(<<0, 15, 30, 45, 60, 75, 90, 105, 120, 135>>)
                  ELSE SUGAR_CUTOFFS
        fruits == IF self = "Drinks"
                  THEN Units(<<0, 40, 40, 60, 60, 80, 80, 80, 80, 80>>)
                  ELSE FRUITS_CUTOFFS
    IN  <<energy, fats, sugar, PROTEIN_CUTOFFS, SODIUM_CUTOFF, FIBERS_CUTOFFS, fruits>>

(* ---------------------------- Nutrition ------------------------------- *)

saturated_fat_value(n, c) ==
    IF c = "OilsAndFats"
    THEN F32Mul(F32Div(n.saturated_fats, n.fat), 100 * Scale)
    ELSE n.saturated_fats

sodium(n) == F32Div(n.salt, 25 * (Scale \div 10))

(* -------------------------- point counter ----------------------------- *)

\* slice::is_sorted over PartialOrd: every adjacent pair is comparable and a <= b
is_sorted(a) == \A i \in 1..(Len(a) - 1) : Le(a[i], a[i + 1])

\* rposition with the predicate value >= c
rposition_idx_ge(a, v) ==
    LET S == {i \in DOMAIN a : Gt(v, a[i]) \/ (~IsNaN(v) /\ v = a[i])}
    IN  IF S = {} THEN 0 ELSE CHOOSE i \in S : \A j \in S : j <= i

\* arr.iter().rposition(|c| value > c).map_or(0, |n| n + 1)
rposition_idx(a, v) ==
    LET S == {i \in DOMAIN a : Gt(v, a[i])}
    IN  IF S = {} THEN 0 ELSE CHOOSE i \in S : \A j \in S : j <= i

\* the two assertions of `points`
points_panics(a, v) == ~is_sorted(a) \/ ~(rposition_idx(a, v) <= Len(a))

points(a, v) == rposition_idx(a, v)

(* ------------------------------ draw ---------------------------------- *)

draw(name, a, v, style) ==
    [name |-> name, pos |-> points(a, v), len |-> Len(a), style |-> style]

draw_positive(name, a, v) == draw(name, a, v, "green")

draw_negative(name, a, v) == draw(name, a, v, "red")

(* ----------------------- calculate_nutriscore -------------------------- *)

\* the suppression test with the threshold off by one
suppressed_ge10(c, neg, fp) == c # "Cheese" /\ neg >= 10 /\ fp < 5

\* the suppression test without the Cheese branch in front of it
suppressed_any_category(c, neg, fp) == neg >= 11 /\ fp < 5

\* the branch of lines 234-237: fibers and proteins are not counted
suppressed(c, neg, fp) == c # "Cheese" /\ neg >= 11 /\ fp < 5

\* the closure `positive` of lines 224-231
positive(t, n, fp) ==
    fp + points(t[FibersIx], n.fibers) + points(t[ProteinIx], n.proteins)

\* lines 232-240
final_score(c, n, t, neg, fp) ==
    IF suppressed(c, neg, fp) THEN neg - fp ELSE neg - positive(t, n, fp)

\* the progress bars drawn, in the order of the calls
negative_bars(c, n, t) ==
    << draw_negative("Energy", t[EnergyIx], n.energy),
       draw_negative("Sugar", t[SugarIx], n.sugar),
       draw_negative("Fats", t[FatsIx], saturated_fat_value(n, c)),
       draw_negative("Sodium", t[SodiumIx], sodium(n)) >>

positive_bars(n, t) ==
    << draw_positive("Fibers", t[FibersIx], n.fibers),
       draw_positive("Protein", t[ProteinIx], n.proteins) >>

\* some call of `points` made by calculate_nutriscore fails an assertion
calculate_panics(c, n, fv) ==
    LET t   == all_cutoffs(c)
        neg == points(t[EnergyIx], n.energy) + points(t[SugarIx], n.sugar)
               + points(t[FatsIx], saturated_fat_value(n, c))
               + points(t[SodiumIx], sodium(n))
        fp  == points(t[FruitsIx], fv)
    IN  \/ points_panics(t[EnergyIx], n.energy)
        \/ points_panics(t[SugarIx], n.sugar)
        \/ points_panics(t[FatsIx], saturated_fat_value(n, c))
        \/ points_panics(t[SodiumIx], sodium(n))
        \/ points_panics(t[FruitsIx], fv)
        \/ /\ ~suppressed(c, neg, fp)
           /\ \/ points_panics(t[FibersIx], n.fibers)
              \/ points_panics(t[ProteinIx], n.proteins)

calculate_nutriscore ==
    /\ pc = "main"
    /\ LET t   == all_cutoffs(cat)
           nb  == negative_bars(cat, nutrition, t)
           neg == nb[1].pos + nb[2].pos + nb[3].pos + nb[4].pos
           fb  == draw_positive("Fruits & Vegs", t[FruitsIx], fruits_value)
           fp  == fb.pos
       IN  /\ tables' = t
           /\ negative' = neg
           /\ fruits_points' = fp
           /\ score' = final_score(cat, nutrition, t, neg, fp)
           /\ bars' = IF suppressed(cat, neg, fp)
                      THEN nb \o <<fb>>
                      ELSE nb \o <<fb>> \o positive_bars(nutrition, t)
    /\ pc' = IF calculate_panics(cat, nutrition, fruits_value) THEN "panic" ELSE "scored"
    /\ UNCHANGED <<cat, nutrition, fruits_value, is_water, letter, arr, value, idx>>

(* -------------------------- score_to_letter --------------------------- *)

\* the water arm placed after the first score arm
score_to_letter_water_late(self, sc, water) ==
    IF self = "Drinks"
    THEN CASE sc <= 1 -> "B"
           [] sc > 1 /\ water -> "A"
           [] ~water /\ sc \in 2..5 -> "C"
           [] ~water /\ sc \in 6..9 -> "D"
           [] ~water /\ sc >= 10 -> "E"
    ELSE CASE sc <= -1 -> "A"
           [] sc \in 0..2 -> "B"
           [] sc \in 3..10 -> "C"
           [] sc \in 11..18 -> "D"
           [] sc >= 19 -> "E"

\* the non-drink boundary between 'B' and 'C' off by one
score_to_letter_b_upto3(self, sc, water) ==
    IF self = "Drinks"
    THEN CASE water -> "A"
           [] ~water /\ sc <= 1 -> "B"
           [] ~water /\ sc \in 2..5 -> "C"
           [] ~water /\ sc \in 6..9 -> "D"
           [] ~water /\ sc >= 10 -> "E"
    ELSE CASE sc <= -1 -> "A"
           [] sc \in 0..3 -> "B"
           [] sc \in 4..10 -> "C"
           [] sc \in 11..18 -> "D"
           [] sc >= 19 -> "E"

\* the drink boundary between 'D' and 'E' off by one
score_to_letter_d_upto10(self, sc, water) ==
    IF self = "Drinks"
    THEN CASE water -> "A"
           [] ~water /\ sc <= 1 -> "B"
           [] ~water /\ sc \in 2..5 -> "C"
           [] ~water /\ sc \in 6..10 -> "D"
           [] ~water /\ sc >= 11 -> "E"
    ELSE CASE sc <= -1 -> "A"
           [] sc \in 0..2 -> "B"
           [] sc \in 3..10 -> "C"
           [] sc \in 11..18 -> "D"
           [] sc >= 19 -> "E"

score_to_letter(self, sc, water) ==
    IF self = "Drinks"
    THEN CASE water -> "A"
           [] ~water /\ sc <= 1 -> "B"
           [] ~water /\ sc \in 2..5 -> "C"
           [] ~water /\ sc \in 6..9 -> "D"
           [] ~water /\ sc >= 10 -> "E"
    ELSE CASE sc <= -1 -> "A"
           [] sc \in 0..2 -> "B"
           [] sc \in 3..10 -> "C"
           [] sc \in 11..18 -> "D"
           [] sc >= 19 -> "E"

\* main, lines 176-177: the letter of the computed score
ScoreToLetter ==
    /\ pc = "scored"
    /\ letter' = score_to_letter(cat, score, is_water)
    /\ pc' = "done"
    /\ UNCHANGED <<cat, nutrition, fruits_value, is_water,
                   tables, negative, fruits_points, score, bars, arr, value, idx>>

(* ------------------------------ points -------------------------------- *)

\* one call of `points` on the table arr with the value `value`
Points ==
    /\ pc = "call"
    /\ idx' = points(arr, value)
    /\ pc' = IF points_panics(arr, value) THEN "panic" ELSE "returned"
    /\ UNCHANGED <<cat, nutrition, fruits_value, is_water,
                   tables, negative, fruits_points, score, bars, letter, arr, value>>

(* ------------------------------ inputs -------------------------------- *)

\* sample values a user can enter (hundredths); f32 parsing accepts inf and NaN
EnergyInputs == {0, 1200 * Scale, 3400 * Scale}
FatInputs == {0, 20 * Scale}
SaturatedFatsInputs == {0, 5 * Scale}
SugarInputs == {0, 10 * Scale, 50 * Scale}
ProteinsInputs == {0, 3 * Scale, 9 * Scale}
SaltInputs == {0, 1 * Scale, 2500 * Scale}
FibersInputs == {0, 2 * Scale}
FruitsInputs == {-1 * Scale, 0, 50 * Scale, 80 * Scale, 90 * Scale, INFINITY, NAN}

NutritionInputs ==
    [energy : EnergyInputs, fat : FatInputs, saturated_fats : SaturatedFatsInputs,
     sugar : SugarInputs, proteins : ProteinsInputs, salt : SaltInputs,
     fibers : FibersInputs]

NoNutrition ==
    [energy |-> 0, fat |-> 0, saturated_fats |-> 0, sugar |-> 0, proteins |-> 0,
     salt |-> 0, fibers |-> 0]

F32Values == (0..MaxVal) \cup {INFINITY, NAN}

TableInputs == UNION {[1..n -> F32Values] : n \in 0..MaxLen}

(* -------------------------- specifications ---------------------------- *)

\* main, lines 158-174: the inputs are read; is_water is asked for drinks only
Init ==
    /\ pc = "main"
    /\ cat \in Category
    /\ nutrition \in NutritionInputs
    /\ fruits_value \in FruitsInputs
    /\ is_water \in (IF cat = "Drinks" THEN BOOLEAN ELSE {FALSE})
    /\ tables = <<>>
    /\ negative = 0
    /\ fruits_points = 0
    /\ score = 0
    /\ bars = <<>>
    /\ letter = ""
    /\ arr = <<>>
    /\ value = 0
    /\ idx = 0

Next == calculate_nutriscore \/ ScoreToLetter

Spec == Init /\ [][Next]_vars

\* score_to_letter on its own: every category, score and water flag
InitLetter ==
    /\ pc = "scored"
    /\ cat \in Category
    /\ score \in (-ScoreBound)..ScoreBound
    /\ is_water \in BOOLEAN
    /\ nutrition = NoNutrition
    /\ fruits_value = 0
    /\ tables = <<>>
    /\ negative = 0
    /\ fruits_points = 0
    /\ bars = <<>>
    /\ letter = ""
    /\ arr = <<>>
    /\ value = 0
    /\ idx = 0

NextLetter == ScoreToLetter

SpecLetter == InitLetter /\ [][NextLetter]_vars

\* points on its own: every table up to MaxLen entries, sorted or not
InitPoints ==
    /\ pc = "call"
    /\ arr \in TableInputs
    /\ value \in F32Values
    /\ idx = 0
    /\ cat = "Other"
    /\ nutrition = NoNutrition
    /\ fruits_value = 0
    /\ is_water = FALSE
    /\ tables = <<>>
    /\ negative = 0
    /\ fruits_points = 0
    /\ score = 0
    /\ bars = <<>>
    /\ letter = ""

NextPoints == Points

SpecPoints == InitPoints /\ [][NextPoints]_vars

(* ------------------------------ claims -------------------------------- *)

Scored == pc \in {"scored", "done"}

FibersPoints == points(tables[FibersIx], nutrition.fibers)

ProteinPoints == points(tables[ProteinIx], nutrition.proteins)

\* C1: on a table sorted ascending (ties allowed) points returns normally, and
\* the result is the number of entries strictly less than the value, which
\* lies between 0 and the length of the table.
C1_PointsCountsSmallerEntries ==
    (pc # "call" /\ is_sorted(arr)) =>
        /\ pc = "returned"
        /\ idx = Cardinality({i \in DOMAIN arr : Lt(arr[i], value)})
        /\ idx \in 0..Len(arr)

\* a sorted table with a tie below the value and an entry not below it
C1_Witness ==
    /\ pc = "returned"
    /\ Len(arr) >= 3
    /\ arr[1] = arr[2]
    /\ idx = 2

\* C2: for a category other than Cheese the score is negative minus all three
\* positive counts when negative < 11 or fruit points = 5, and negative minus
\* the fruit points alone when negative >= 11 and fruit points < 5.
C2_NonCheeseComposition ==
    (Scored /\ cat # "Cheese") =>
        /\ (negative < 11 \/ fruits_points = 5) =>
              score = negative - (fruits_points + FibersPoints + ProteinPoints)
        /\ (negative >= 11 /\ fruits_points < 5) =>
              score = negative - fruits_points

\* fibers and proteins earn points that the suppression leaves out
C2_Witness ==
    /\ pc = "scored"
    /\ cat # "Cheese"
    /\ negative >= 11
    /\ fruits_points < 5
    /\ FibersPoints > 0
    /\ ProteinPoints > 0
    /\ score = negative - fruits_points

\* C3: for Cheese the score is negative minus fruit, fiber and protein points
\* for every input, also when negative >= 11 and fruit points < 5.
C3_CheeseNeverSuppressed ==
    (Scored /\ cat = "Cheese") =>
        score = negative - (fruits_points + FibersPoints + ProteinPoints)

C3_Witness ==
    /\ pc = "scored"
    /\ cat = "Cheese"
    /\ negative >= 11
    /\ fruits_points < 5
    /\ FibersPoints + ProteinPoints > 0
    /\ score < negative - fruits_points

\* C4: a drink that is water is graded 'A' whatever the score.
C4_WaterIsA ==
    (pc = "done" /\ cat = "Drinks" /\ is_water) => letter = "A"

C4_Witness ==
    pc = "done" /\ cat = "Drinks" /\ is_water /\ score = 15 /\ letter = "A"

\* C5: for Cheese, OilsAndFats and Other the letter is 'A' up to -1, 'B' for
\* 0..2, 'C' for 3..10, 'D' for 11..18 and 'E' from 19 on, whatever is_water
\* is; every score gets a letter.
C5_NonDrinkLetters ==
    (pc = "done" /\ cat # "Drinks") =>
        /\ letter \in {"A", "B", "C", "D", "E"}
        /\ (letter = "A") = (score <= -1)
        /\ (letter = "B") = (score \in 0..2)
        /\ (letter = "C") = (score \in 3..10)
        /\ (letter = "D") = (score \in 11..18)
        /\ (letter = "E") = (score >= 19)

C5_Witness ==
    pc = "done" /\ cat = "OilsAndFats" /\ is_water /\ score = 3 /\ letter = "C"

\* C6: a drink that is not water is graded 'B' up to 1, 'C' for 2..5, 'D' for
\* 6..9 and 'E' from 10 on, and never 'A'.
C6_DrinkLetters ==
    (pc = "done" /\ cat = "Drinks" /\ ~is_water) =>
        /\ letter \in {"B", "C", "D", "E"}
        /\ (letter = "B") = (score <= 1)
        /\ (letter = "C") = (score \in 2..5)
        /\ (letter = "D") = (score \in 6..9)
        /\ (letter = "E") = (score >= 10)

C6_Witness ==
    pc = "done" /\ cat = "Drinks" /\ ~is_water /\ score = 10 /\ letter = "E"

\* C7 as stated: the fruit points lie in 0..5 for every category, Drinks
\* included.
C7_FruitPointsAtMost5 ==
    Scored => fruits_points \in 0..5

\* C7 amended: the fruit points are the point count of the fruit percentage
\* against the category's fruit table; they lie in 0..10 for Drinks and in
\* 0..5 for every other category.
C7_FruitPointsRange ==
    Scored =>
        /\ fruits_points = points(tables[FruitsIx], fruits_value)
        /\ fruits_points \in 0..10
        /\ cat # "Drinks" => fruits_points \in 0..5

C7_Witness ==
    pc = "scored" /\ cat = "Drinks" /\ fruits_value = 90 * Scale /\ fruits_points = 10

\* C8 as stated: with the canonical fruit table the fruit point count is at
\* most 3.
C8_FruitPointsAtMost3 ==
    (Scored /\ cat # "Drinks") => fruits_points <= 3

\* C8 amended: with the canonical fruit table the last five cutoffs are never
\* exceeded and the fruit point count is at most 5.
C8_CeilingsNeverExceeded ==
    (Scored /\ cat # "Drinks") =>
        /\ \A i \in 6..10 : ~Gt(fruits_value, tables[FruitsIx][i])
        /\ fruits_points <= 5

C8_Witness ==
    pc = "scored" /\ cat = "Other" /\ fruits_value = INFINITY /\ fruits_points = 5

\* the tables of section 4.1, in hundredths
CanonicalTables ==
    << <<33500, 67000, 100500, 134000, 167500, 201000, 234500, 268000, 301500, 335000>>,
       <<100, 200, 300, 400, 500, 600, 700, 800, 900, 1000>>,
       <<450, 900, 1350, 1800, 2250, 2700, 3100, 3600, 4000, 4500>>,
       <<160, 320, 480, 640, 800>>,
       <<9000, 18000, 27000, 36000, 45000, 54000, 63000, 72000, 81000, 90000>>,
       <<80, 190, 280, 370, 470>>,
       <<4000, 6000, 8000, 8000, 8000,
         INFINITY, INFINITY, INFINITY, INFINITY, INFINITY>> >>

DrinksEnergy == <<0, 3000, 6000, 9000, 12000, 15000, 18000, 21000, 24000, 27000>>

DrinksSugar == <<0, 150, 300, 450, 600, 750, 900, 1050, 1200, 1350>>

DrinksFruits == <<0, 4000, 4000, 6000, 6000, 8000, 8000, 8000, 8000, 8000>>

OilsFats == <<1000, 1600, 2200, 2800, 3400, 4000, 4600, 5200, 5800, 6400>>

Overridden == {i \in 1..7 : tables[i] # CanonicalTables[i]}

\* C9: Cheese and Other get the canonical table in all seven dimensions;
\* Drinks differs in exactly energy, sugar and fruit/veg; OilsAndFats differs
\* in exactly saturated fat; protein, sodium and fiber never differ.
C9_TableResolution ==
    Scored =>
        /\ Len(tables) = 7
        /\ cat \in {"Cheese", "Other"} => Overridden = {}
        /\ cat = "Drinks" =>
              /\ Overridden = {EnergyIx, SugarIx, FruitsIx}
              /\ tables[EnergyIx] = DrinksEnergy
              /\ tables[SugarIx] = DrinksSugar
              /\ tables[FruitsIx] = DrinksFruits
        /\ cat = "OilsAndFats" =>
              /\ Overridden = {FatsIx}
              /\ tables[FatsIx] = OilsFats
        /\ Overridden \cap {ProteinIx, SodiumIx, FibersIx} = {}

C9_Witness ==
    pc = "scored" /\ cat = "Drinks" /\ Cardinality(Overridden) = 3

Ascending(t) ==
    \A i, j \in DOMAIN t : i < j => (t[i] # NAN /\ t[j] # NAN /\ t[i] <= t[j])

\* C10: no evaluation of calculate_nutriscore aborts on an assertion of
\* points: every table it resolves is sorted ascending, ties permitted.
C10_NoAssertionFails ==
    /\ pc # "panic"
    /\ Scored => \A i \in 1..7 : Ascending(tables[i])

\* all seven tables went through points, one of them with ties
C10_Witness ==
    /\ pc = "done"
    /\ cat = "Drinks"
    /\ Len(bars) = 7
    /\ \E i \in 1..7 : \E j \in 1..(Len(tables[i]) - 1) : tables[i][j] = tables[i][j + 1]

====
